---- MODULE Spec2Model ----
(***************************************************************************)
(* Gas accounting of the FVM (fvm/src/gas/mod.rs): the saturating Gas      *)
(* value type and the GasTracker with its nested (child) trackers.         *)
(*                                                                         *)
(* Gas is an i64 count of milligas.  The model keeps the two's-complement  *)
(* shape of i64 (I64_MIN = -I64_MAX - 1) on a range small enough to        *)
(* enumerate, so that both saturation ends are reached by the inputs.      *)
(* Where a claim adds or subtracts Gas values, the sum is the Gas type's   *)
(* (saturating) one unless the claim's comment says otherwise; it is the   *)
(* integer sum whenever that is representable.                             *)
(***************************************************************************)
EXTENDS Integers, Sequences, FiniteSets, TLC

VARIABLES
    trackers,   \* the live GasTrackers, in creation order; trackers[1] is the root
    hist,       \* history of each tracker's charge attempts (not program state)
    last,       \* the last call made on the API and what it returned
    sys,        \* the syscall bridge: the last syscall and what the bridge did
    calc,       \* the Gas value type: the operands and the result of an operation
    nest,       \* a call stack of trackers and the order of its charge attempts
    twin        \* a traced and an untraced tracker driven by the same calls

\* Each specification below moves its own variables and leaves the others
\* idle: Spec (the GasTracker API) trackers, hist and last; SpecSyscalls sys;
\* SpecGas calc; SpecNested nest; SpecTwin twin.
vars == <<trackers, hist, last, sys, calc, nest, twin>>

tracker_vars == <<trackers, hist, last>>

Idle == "idle"

(***************************************************************************)
(* Bounds                                                                  *)
(***************************************************************************)
\* i64::MAX, scaled to the model's range
I64_MAX == 2
\* charge records held in all trace buffers together
MaxTrace == 2

I64_MIN == (-I64_MAX) - 1

\* the frames of the model: a call frame and the frame of its nested call
Frames == <<"parent", "child">>

\* arguments of charge_gas: a refund and a charge of one milligas
ChargeGasArgs == {<<"refund", -1>>, <<"unit", 1>>}

\* argument of apply_charge: a record whose total saturates
ApplyChargeArgs == {[name |-> "max", compute_gas |-> I64_MAX, other_gas |-> 1]}

\* arguments of GasTracker::new for the root tracker
InitLimit == {1, I64_MAX}
InitUsed == {0, 2}

\* limits asked of new_child
NewLimit == {0, 1, I64_MAX}

(***************************************************************************)
(* Gas: saturating arithmetic                                              *)
(***************************************************************************)
\* i64::saturating_add
saturating_add(a, b) ==
    IF a + b > I64_MAX THEN I64_MAX
    ELSE IF a + b < I64_MIN THEN I64_MIN
    ELSE a + b

\* i64::saturating_sub
saturating_sub(a, b) ==
    IF a - b > I64_MAX THEN I64_MAX
    ELSE IF a - b < I64_MIN THEN I64_MIN
    ELSE a - b

\* impl Add for Gas
add(self, rhs) == saturating_add(self, rhs)

\* impl Sub for Gas
sub(self, rhs) == saturating_sub(self, rhs)

\* impl Zero for Gas
zero == 0

(***************************************************************************)
(* GasCharge (gas/charge.rs): name, compute_gas, other_gas.  The elapsed   *)
(* field belongs to the timer and is not accounted.                        *)
(***************************************************************************)
GasCharge_new(name, compute_gas, other_gas) ==
    [name |-> name, compute_gas |-> compute_gas, other_gas |-> other_gas]

total(charge) == add(charge.compute_gas, charge.other_gas)

(***************************************************************************)
(* GasTracker                                                              *)
(***************************************************************************)
\* trace: Option<RefCell<Vec<GasCharge>>> is the pair (tracing, trace);
\* trace stays <<>> when tracing is FALSE (the Option is None).
GasTracker_new(gas_limit, gas_used, enable_tracing) ==
    [gas_limit |-> gas_limit, gas_used |-> gas_used,
     tracing |-> enable_tracing, trace |-> <<>>]

gas_limit(self) == self.gas_limit

gas_used(self) == self.gas_used

gas_available(self) == sub(self.gas_limit, self.gas_used)

\* charge_gas_inner without the clamp: a failed charge applies the full amount
charge_gas_inner_unclamped(self, to_use) ==
    LET used == add(self.gas_used, to_use) IN
    [tracker |-> [self EXCEPT !.gas_used = used],
     res |-> IF used > self.gas_limit THEN "OutOfGas" ELSE "Ok"]

\* charge_gas_inner failing already when the sum reaches the limit
charge_gas_inner_strict(self, to_use) ==
    LET used == add(self.gas_used, to_use) IN
    IF used >= self.gas_limit
    THEN [tracker |-> [self EXCEPT !.gas_used = self.gas_limit], res |-> "OutOfGas"]
    ELSE [tracker |-> [self EXCEPT !.gas_used = used], res |-> "Ok"]

\* charge_gas_inner leaving the usage alone when the charge fails
charge_gas_inner_keep(self, to_use) ==
    LET used == add(self.gas_used, to_use) IN
    IF used > self.gas_limit
    THEN [tracker |-> self, res |-> "OutOfGas"]
    ELSE [tracker |-> [self EXCEPT !.gas_used = used], res |-> "Ok"]

\* the tracker after the call and the Result it returns
charge_gas_inner(self, to_use) ==
    LET used == add(self.gas_used, to_use) IN
    IF used > self.gas_limit
    THEN [tracker |-> [self EXCEPT !.gas_used = self.gas_limit], res |-> "OutOfGas"]
    ELSE [tracker |-> [self EXCEPT !.gas_used = used], res |-> "Ok"]

\* charge_gas returning the error before the record is pushed
charge_gas_record_on_success(self, name, to_use) ==
    LET r == charge_gas_inner(self, to_use) IN
    IF self.tracing /\ r.res = "Ok"
    THEN [tracker |-> [r.tracker EXCEPT
                          !.trace = Append(@, GasCharge_new(name, to_use, zero))],
          res |-> r.res]
    ELSE r

charge_gas(self, name, to_use) ==
    LET r == charge_gas_inner(self, to_use) IN
    IF self.tracing
    THEN [tracker |-> [r.tracker EXCEPT
                          !.trace = Append(@, GasCharge_new(name, to_use, zero))],
          res |-> r.res]
    ELSE r

\* apply_charge charging the compute part of the record only
apply_charge_compute_only(self, charge) ==
    LET r == charge_gas_inner(self, charge.compute_gas) IN
    IF self.tracing
    THEN [tracker |-> [r.tracker EXCEPT !.trace = Append(@, charge)], res |-> r.res]
    ELSE r

apply_charge(self, charge) ==
    LET r == charge_gas_inner(self, total(charge)) IN
    IF self.tracing
    THEN [tracker |-> [r.tracker EXCEPT !.trace = Append(@, charge)], res |-> r.res]
    ELSE r

\* drain_trace handing out the entries without taking them from the buffer
drain_trace_keep(self) ==
    IF self.tracing
    THEN [tracker |-> self, items |-> self.trace]
    ELSE [tracker |-> self, items |-> <<>>]

\* the tracker after the call and the entries the iterator yields
drain_trace(self) ==
    IF self.tracing
    THEN [tracker |-> [self EXCEPT !.trace = <<>>], items |-> self.trace]
    ELSE [tracker |-> self, items |-> <<>>]

\* absorb putting the absorbed entries before the tracker's own
absorb_prepend(self, other) ==
    LET d == IF self.tracing THEN drain_trace(other)
             ELSE [tracker |-> other, items |-> <<>>]
        extended == IF self.tracing
                    THEN [self EXCEPT !.trace = d.items \o @]
                    ELSE self
        r == charge_gas_inner(extended, gas_used(d.tracker))
    IN [self |-> r.tracker, other |-> d.tracker, res |-> r.res]

\* absorb charging first and returning the error before the trace is moved
absorb_charge_first(self, other) ==
    LET r == charge_gas_inner(self, gas_used(other))
        d == IF self.tracing /\ r.res = "Ok" THEN drain_trace(other)
             ELSE [tracker |-> other, items |-> <<>>]
    IN [self |-> [r.tracker EXCEPT !.trace = @ \o d.items],
        other |-> d.tracker, res |-> r.res]

\* absorb charging inside the block that moves the trace: only when self traces
absorb_charge_if_tracing(self, other) ==
    IF self.tracing
    THEN LET d == drain_trace(other)
             r == charge_gas_inner([self EXCEPT !.trace = @ \o d.items],
                                   gas_used(d.tracker))
         IN [self |-> r.tracker, other |-> d.tracker, res |-> r.res]
    ELSE [self |-> self, other |-> other, res |-> "Ok"]

\* self and other are two trackers (other is drained only when self traces)
absorb(self, other) ==
    LET d == IF self.tracing THEN drain_trace(other)
             ELSE [tracker |-> other, items |-> <<>>]
        extended == IF self.tracing
                    THEN [self EXCEPT !.trace = @ \o d.items]
                    ELSE self
        r == charge_gas_inner(extended, gas_used(d.tracker))
    IN [self |-> r.tracker, other |-> d.tracker, res |-> r.res]

\* new_child granting a limit equal to the available gas
new_child_or_equal(self, new_limit) ==
    IF gas_available(self) >= new_limit
    THEN [some |-> TRUE, child |-> GasTracker_new(new_limit, zero, self.tracing)]
    ELSE [some |-> FALSE, child |-> GasTracker_new(zero, zero, FALSE)]

\* new_child granting any limit
new_child_unchecked(self, new_limit) ==
    [some |-> TRUE, child |-> GasTracker_new(new_limit, zero, self.tracing)]

\* new_child starting the child at the parent's usage
new_child_inherit_used(self, new_limit) ==
    IF gas_available(self) > new_limit
    THEN [some |-> TRUE,
          child |-> GasTracker_new(new_limit, gas_used(self), self.tracing)]
    ELSE [some |-> FALSE, child |-> GasTracker_new(zero, zero, FALSE)]

\* Option<GasTracker>: some = FALSE is None
new_child(self, new_limit) ==
    IF gas_available(self) > new_limit
    THEN [some |-> TRUE, child |-> GasTracker_new(new_limit, zero, self.tracing)]
    ELSE [some |-> FALSE, child |-> GasTracker_new(zero, zero, FALSE)]

(***************************************************************************)
(* History of a tracker's charge attempts (charge_gas, apply_charge and    *)
(* absorb on it), kept beside the program's state to state the claims      *)
(*   charged TRUE once a charge was attempted                              *)
(*   within  TRUE while the initial usage and every running total so far   *)
(*           were <= gas_limit                                             *)
(*   sum     while within: the running total of the initial usage and the  *)
(*           amounts charged, in call order, in Gas arithmetic (0 after)   *)
(*   failed  TRUE once a charge attempt returned OutOfGas                  *)
(*   oog     "no"; "clamped": a charge failed and no charge has lowered    *)
(*           the usage since; "reclamped": a charge failed on the tracker  *)
(*           while it was "clamped" or "reclamped"                         *)
(***************************************************************************)
HistNew(gas_used_0, limit) ==
    [charged |-> FALSE,
     within  |-> gas_used_0 <= limit,
     sum     |-> IF gas_used_0 <= limit THEN gas_used_0 ELSE 0,
     failed  |-> FALSE,
     oog     |-> "no"]

HistCharge(h, before, after, res, to_use) ==
    LET s == add(h.sum, to_use)
        w == h.within /\ s <= before.gas_limit
    IN
    [charged |-> TRUE,
     within  |-> w,
     sum     |-> IF w THEN s ELSE 0,
     failed  |-> h.failed \/ res = "OutOfGas",
     oog     |-> IF res = "OutOfGas"
                 THEN IF h.oog = "no" THEN "clamped" ELSE "reclamped"
                 ELSE IF after.gas_used < before.gas_used THEN "no" ELSE h.oog]

\* charge records held in all trace buffers together
TraceTotal ==
    LET RECURSIVE Sum(_)
        Sum(i) == IF i = 0 THEN 0 ELSE Len(trackers[i].trace) + Sum(i - 1)
    IN Sum(Len(trackers))

\* a call on tracker `self` (and `other`, 0 when there is none): the name and
\* the Gas amount it was given, the usage of `self` before it, what it
\* returned and the trace entries it drained
Call(op, self, other, name, arg, before, ret, items) ==
    [op |-> op, self |-> self, other |-> other, name |-> name, arg |-> arg,
     before |-> before, ret |-> ret, items |-> items]

(***************************************************************************)
(* The state machine: one action per method of GasTracker                  *)
(***************************************************************************)
Init ==
    \E l \in InitLimit, u \in InitUsed, tr \in BOOLEAN :
        /\ trackers = <<GasTracker_new(l, u, tr)>>
        /\ hist = <<HistNew(u, l)>>
        /\ last = Call("new", 1, 0, "", 0, u, "Ok", <<>>)
        /\ sys = Idle /\ calc = Idle /\ nest = Idle /\ twin = Idle

ChargeGas(i, name, to_use) ==
    LET r == charge_gas(trackers[i], name, to_use) IN
    /\ trackers[i].tracing => TraceTotal < MaxTrace
    /\ trackers' = [trackers EXCEPT ![i] = r.tracker]
    /\ hist' = [hist EXCEPT ![i] = HistCharge(@, trackers[i], r.tracker, r.res, to_use)]
    /\ last' = Call("charge_gas", i, 0, name, to_use, gas_used(trackers[i]), r.res, <<>>)
    /\ UNCHANGED <<sys, calc, nest, twin>>

ApplyCharge(i, charge) ==
    LET r == apply_charge(trackers[i], charge) IN
    /\ trackers[i].tracing => TraceTotal < MaxTrace
    /\ trackers' = [trackers EXCEPT ![i] = r.tracker]
    /\ hist' = [hist EXCEPT ![i] = HistCharge(@, trackers[i], r.tracker, r.res,
                                              total(charge))]
    /\ last' = Call("apply_charge", i, 0, charge.name, total(charge),
                    gas_used(trackers[i]), r.res, <<>>)
    /\ UNCHANGED <<sys, calc, nest, twin>>

\* trackers[i].absorb(&trackers[j]), for two distinct trackers (absorbing a
\* tracing tracker into itself borrows its RefCell twice and panics)
Absorb(i, j) ==
    LET r == absorb(trackers[i], trackers[j]) IN
    /\ i # j
    /\ trackers' = [trackers EXCEPT ![i] = r.self, ![j] = r.other]
    /\ hist' = [hist EXCEPT ![i] = HistCharge(@, trackers[i], r.self, r.res,
                                              gas_used(trackers[j]))]
    /\ last' = Call("absorb", i, j, "", gas_used(trackers[j]), gas_used(trackers[i]),
                    r.res, IF trackers[i].tracing THEN trackers[j].trace ELSE <<>>)
    /\ UNCHANGED <<sys, calc, nest, twin>>

\* trackers[i].new_child(new_limit); a child returned becomes the next frame
NewChild(i, new_limit) ==
    LET r == new_child(trackers[i], new_limit) IN
    /\ r.some => Len(trackers) < Len(Frames)
    /\ trackers' = IF r.some THEN Append(trackers, r.child) ELSE trackers
    /\ hist' = IF r.some THEN Append(hist, HistNew(zero, new_limit)) ELSE hist
    /\ last' = Call("new_child", i, 0, "", new_limit, gas_used(trackers[i]),
                    IF r.some THEN "Some" ELSE "None", <<>>)
    /\ UNCHANGED <<sys, calc, nest, twin>>

DrainTrace(i) ==
    LET r == drain_trace(trackers[i]) IN
    /\ trackers' = [trackers EXCEPT ![i] = r.tracker]
    /\ hist' = hist
    /\ last' = Call("drain_trace", i, 0, "", 0, gas_used(trackers[i]), "Ok", r.items)
    /\ UNCHANGED <<sys, calc, nest, twin>>

Next ==
    \/ \E i \in DOMAIN trackers, a \in ChargeGasArgs : ChargeGas(i, a[1], a[2])
    \/ \E i \in DOMAIN trackers, charge \in ApplyChargeArgs : ApplyCharge(i, charge)
    \/ \E i \in DOMAIN trackers, j \in DOMAIN trackers : Absorb(i, j)
    \/ \E i \in DOMAIN trackers, new_limit \in NewLimit : NewChild(i, new_limit)
    \/ \E i \in DOMAIN trackers : DrainTrace(i)

Spec == Init /\ [][Next]_vars

\* the trackers of Spec while another specification runs
TrackersIdle ==
    /\ trackers = <<>>
    /\ hist = <<>>
    /\ last = Call("idle", 0, 0, "", 0, 0, "Ok", <<>>)

(***************************************************************************)
(* Claims.  An action formula [][A]_vars reads last' as the call of the    *)
(* step (every action records its own call there), the unprimed variables  *)
(* as the state before the call and the primed ones as the state after.    *)
(***************************************************************************)
\* calls that charge: charge_gas and apply_charge; and absorb, which charges too
ChargeOps == {"charge_gas", "apply_charge"}

AttemptOps == ChargeOps \cup {"absorb"}

\* C1: after any charge attempt on a tracker (charge_gas, apply_charge or
\* absorb; successful or failed), gas_used <= gas_limit holds of it, in every
\* later state, whatever is called.
C1_UsedWithinLimit ==
    \A i \in DOMAIN trackers :
        hist[i].charged => trackers[i].gas_used <= trackers[i].gas_limit

\* a tracker created with gas_used > gas_limit was charged and is within its limit
C1_Witness ==
    /\ last.op \in AttemptOps
    /\ last.ret = "OutOfGas"
    /\ last.before > trackers[last.self].gas_limit
    /\ trackers[last.self].gas_used <= trackers[last.self].gas_limit

\* C2: for a tracker created with limit L and usage U0 and the charges made
\* on it since, with running total U0+S (Gas sums): as long as every running
\* total was <= L, no charge has failed and gas_used = U0+S; a charge that
\* brings the usage to exactly L succeeds.
C2_ChargesWithinLimitSucceed ==
    \A i \in DOMAIN trackers :
        hist[i].within =>
            /\ ~hist[i].failed
            /\ trackers[i].gas_used = hist[i].sum

\* a charge has just brought a tracker's usage up to exactly its limit
C2_Witness ==
    /\ last.op \in ChargeOps
    /\ last.ret = "Ok"
    /\ hist[last.self].within
    /\ last.before < trackers[last.self].gas_limit
    /\ last.arg > 0
    /\ trackers[last.self].gas_used = trackers[last.self].gas_limit
    /\ trackers[last.self].gas_limit < I64_MAX

\* C3: a charge (charge_gas, apply_charge) whose saturating sum
\* gas_used + amount exceeds gas_limit returns OutOfGas and leaves gas_used
\* equal to gas_limit.
C3_ExceedingChargeClamps ==
    [][ (/\ last'.op \in ChargeOps
         /\ add(trackers[last'.self].gas_used, last'.arg)
                > trackers[last'.self].gas_limit)
        => /\ last'.ret = "OutOfGas"
           /\ trackers'[last'.self].gas_used = trackers[last'.self].gas_limit
      ]_vars

\* a failed charge moved the usage up to the limit: neither the previous usage
\* nor the previous usage plus the amount
C3_Witness ==
    /\ last.op \in ChargeOps
    /\ last.ret = "OutOfGas"
    /\ last.before < trackers[last.self].gas_limit
    /\ last.before + last.arg > trackers[last.self].gas_limit
    /\ trackers[last.self].gas_used = trackers[last.self].gas_limit

\* C4 as claimed: once a charge has failed on a tracker, every later charge
\* attempt on it with a non-zero amount returns OutOfGas and leaves gas_used
\* equal to gas_limit.
C4_StickyNonZero ==
    [][ (/\ last'.op \in AttemptOps
         /\ hist[last'.self].failed
         /\ last'.arg # 0)
        => /\ last'.ret = "OutOfGas"
           /\ trackers'[last'.self].gas_used = trackers[last'.self].gas_limit
      ]_vars

\* C4 (amended): once a charge has failed on a tracker, every later charge
\* attempt on it with a positive amount returns OutOfGas and leaves gas_used
\* equal to gas_limit, until a charge lowers the usage (a negative amount is
\* applied and succeeds).
C4_StickyPositive ==
    [][ (/\ last'.op \in AttemptOps
         /\ hist[last'.self].oog # "no"
         /\ last'.arg > 0)
        => /\ last'.ret = "OutOfGas"
           /\ trackers'[last'.self].gas_used = trackers[last'.self].gas_limit
      ]_vars

\* a positive charge has failed on a tracker that was out of gas already
C4_Witness ==
    /\ last.op \in AttemptOps
    /\ last.ret = "OutOfGas"
    /\ last.arg > 0
    /\ hist[last.self].oog = "reclamped"
    /\ trackers[last.self].gas_used = trackers[last.self].gas_limit

\* C5 as claimed: new_child(new_limit) returns None if and only if
\* new_limit > gas_available(); for new_limit = gas_available() it returns a
\* child.
C5_NoneIffAbove ==
    [][ last'.op = "new_child"
        => (last'.ret = "None"
              <=> last'.arg > gas_available(trackers[last'.self]))
      ]_vars

\* C5 (amended): new_child(new_limit) returns None if and only if
\* new_limit >= gas_available(); for new_limit = gas_available() it returns
\* None.
C5_NoneIffNotBelow ==
    [][ last'.op = "new_child"
        => (last'.ret = "None"
              <=> last'.arg >= gas_available(trackers[last'.self]))
      ]_vars

\* new_child was refused a limit equal to the available gas
C5_Witness ==
    /\ last.op = "new_child"
    /\ last.ret = "None"
    /\ last.arg = gas_available(trackers[last.self])

\* C6: new_child(new_limit) returns a tracker if and only if new_limit is
\* strictly less than the parent's available gas; no child is granted a limit
\* that is not below it.
C6_SomeIffBelow ==
    [][ last'.op = "new_child"
        => /\ last'.ret = "Some"
                <=> last'.arg < gas_available(trackers[last'.self])
           /\ last'.ret = "Some"
                => /\ Len(trackers') = Len(trackers) + 1
                   /\ trackers'[Len(trackers')].gas_limit
                          < gas_available(trackers[last'.self])
      ]_vars

\* a child was granted a limit just below the available gas of a parent that
\* has used some of its gas
C6_Witness ==
    /\ last.op = "new_child"
    /\ last.ret = "Some"
    /\ trackers[last.self].gas_used > 0
    /\ trackers[Len(trackers)].gas_limit + 1 = gas_available(trackers[last.self])

\* C7: when new_child returns a child, the child has the requested limit,
\* zero usage, the parent's tracing flag (and an empty trace), and the parent's
\* limit, usage and trace are unchanged.
C7_ChildFresh ==
    [][ (last'.op = "new_child" /\ last'.ret = "Some")
        => trackers' = Append(trackers,
                              [gas_limit |-> last'.arg,
                               gas_used  |-> 0,
                               tracing   |-> trackers[last'.self].tracing,
                               trace     |-> <<>>])
      ]_vars

\* a tracing parent with usage and trace entries of its own has spawned a child
C7_Witness ==
    /\ last.op = "new_child"
    /\ last.ret = "Some"
    /\ trackers[last.self].tracing
    /\ trackers[last.self].gas_used # 0
    /\ trackers[last.self].trace # <<>>
    /\ trackers[Len(trackers)].tracing
    /\ trackers[Len(trackers)].gas_used = 0

\* C8: when a tracker with usage T is absorbed into one whose budget suffices
\* (used + T <= limit), absorb returns Ok, the absorbing tracker's usage grows
\* by T (Gas sum) and its trace, if it traces, becomes its own entries followed
\* by the absorbed tracker's entries in their order, and nothing else.
C8_AbsorbWithinBudget ==
    [][ (/\ last'.op = "absorb"
         /\ trackers[last'.self].gas_used + trackers[last'.other].gas_used
                <= trackers[last'.self].gas_limit)
        => /\ last'.ret = "Ok"
           /\ trackers'[last'.self].gas_used
                = add(trackers[last'.self].gas_used, trackers[last'.other].gas_used)
           /\ trackers'[last'.self].trace
                = IF trackers[last'.self].tracing
                  THEN trackers[last'.self].trace \o trackers[last'.other].trace
                  ELSE <<>>
      ]_vars

\* a child with usage and a trace was absorbed into a parent with entries of
\* its own, and the parent's usage grew by the child's
C8_Witness ==
    /\ last.op = "absorb"
    /\ last.ret = "Ok"
    /\ last.arg > 0
    /\ last.items # <<>>
    /\ Len(trackers[last.self].trace) > Len(last.items)
    /\ trackers[last.self].gas_used = last.before + last.arg

\* C9 as claimed: when absorb is called and the absorbing tracker's remaining
\* budget (gas_available) is smaller than the absorbed tracker's usage, absorb
\* returns OutOfGas, gas_used is clamped to gas_limit and the absorbed entries
\* are appended all the same.
C9_AbsorbInsufficient ==
    [][ (/\ last'.op = "absorb"
         /\ gas_available(trackers[last'.self]) < trackers[last'.other].gas_used)
        => /\ last'.ret = "OutOfGas"
           /\ trackers'[last'.self].gas_used = trackers[last'.self].gas_limit
           /\ trackers[last'.self].tracing
                => /\ trackers'[last'.self].trace
                        = trackers[last'.self].trace \o trackers[last'.other].trace
                   /\ trackers'[last'.other].trace = <<>>
      ]_vars

\* C9 (amended): when absorb is called and the saturating sum of the absorbing
\* tracker's usage and the absorbed tracker's usage exceeds its limit, absorb
\* returns OutOfGas, gas_used is clamped to gas_limit and the absorbed entries
\* are appended all the same (the absorbed tracker's trace is drained).
C9_AbsorbExceeding ==
    [][ (/\ last'.op = "absorb"
         /\ add(trackers[last'.self].gas_used, trackers[last'.other].gas_used)
                > trackers[last'.self].gas_limit)
        => /\ last'.ret = "OutOfGas"
           /\ trackers'[last'.self].gas_used = trackers[last'.self].gas_limit
           /\ trackers[last'.self].tracing
                => /\ trackers'[last'.self].trace
                        = trackers[last'.self].trace \o trackers[last'.other].trace
                   /\ trackers'[last'.other].trace = <<>>
      ]_vars

\* an absorb failed, clamped the parent and still moved the child's entries
\* behind the parent's own
C9_Witness ==
    /\ last.op = "absorb"
    /\ last.ret = "OutOfGas"
    /\ last.before < trackers[last.self].gas_limit
    /\ trackers[last.self].gas_used = trackers[last.self].gas_limit
    /\ last.items # <<>>
    /\ Len(trackers[last.self].trace) > Len(last.items)
    /\ trackers[last.other].trace = <<>>

\* C10: with tracing enabled, every charge_gas and apply_charge appends exactly
\* one record to the end of the trace, with the requested name and an amount
\* equal to the full amount requested, whether it returns Ok or OutOfGas.
C10_EveryChargeRecorded ==
    [][ (last'.op \in ChargeOps /\ trackers[last'.self].tracing)
        => /\ Len(trackers'[last'.self].trace) = Len(trackers[last'.self].trace) + 1
           /\ SubSeq(trackers'[last'.self].trace, 1, Len(trackers[last'.self].trace))
                = trackers[last'.self].trace
           /\ trackers'[last'.self].trace[Len(trackers'[last'.self].trace)].name
                = last'.name
           /\ total(trackers'[last'.self].trace[Len(trackers'[last'.self].trace)])
                = last'.arg
      ]_vars

\* a failed charge is the last record of the trace, with its full amount
C10_Witness ==
    /\ last.op \in ChargeOps
    /\ last.ret = "OutOfGas"
    /\ trackers[last.self].tracing
    /\ trackers[last.self].trace # <<>>
    /\ trackers[last.self].trace[Len(trackers[last.self].trace)].name = last.name
    /\ total(trackers[last.self].trace[Len(trackers[last.self].trace)]) = last.arg
    /\ last.before + last.arg > trackers[last.self].gas_limit

\* C11: drain_trace returns the entries the trace holds, in their order, and
\* leaves the trace empty; a drain that directly follows a drain of the same
\* tracker returns the empty sequence; without tracing it returns the empty
\* sequence; gas_used and gas_limit are as before the call.
C11_DrainTrace ==
    [][ last'.op = "drain_trace"
        => /\ last'.items = trackers[last'.self].trace
           /\ trackers'[last'.self].trace = <<>>
           /\ ~trackers[last'.self].tracing => last'.items = <<>>
           /\ (last.op = "drain_trace" /\ last.self = last'.self)
                  => last'.items = <<>>
           /\ gas_used(trackers'[last'.self]) = gas_used(trackers[last'.self])
           /\ gas_limit(trackers'[last'.self]) = gas_limit(trackers[last'.self])
      ]_vars

\* a drain has returned two different records and left the trace empty
C11_Witness ==
    /\ last.op = "drain_trace"
    /\ Len(last.items) = 2
    /\ last.items[1] # last.items[2]
    /\ trackers[last.self].trace = <<>>

\* the records with the given name whose compute and other parts sum to amount
RecordsOf(name, amount) ==
    {GasCharge_new(name, c, amount - c) :
        c \in {x \in I64_MIN..I64_MAX : amount - x \in I64_MIN..I64_MAX}}

\* the tracker of the charge `last` as it was before that call: a charge
\* writes gas_used (last.before is its value before the call) and, when the
\* tracker traces, pushes a record; it writes nothing else
BeforeLast ==
    LET after == trackers[last.self] IN
    [after EXCEPT !.gas_used = last.before,
                  !.trace = IF after.tracing /\ @ # <<>>
                            THEN SubSeq(@, 1, Len(@) - 1) ELSE @]

\* the outcome, the usage and the trace of r are those of the call that
\* returned ret and left the tracker `after`: the same result, the same
\* gas_used and, when the tracker traces, the trace of `before` and one more
\* record, of total amount
SameCharge(r, before, after, ret, amount) ==
    LET n == Len(before.trace) + 1 IN
    /\ r.res = ret
    /\ gas_used(r.tracker) = gas_used(after)
    /\ before.tracing
        => /\ Len(r.tracker.trace) = n
           /\ Len(after.trace) = n
           /\ SubSeq(r.tracker.trace, 1, n - 1) = before.trace
           /\ total(r.tracker.trace[n]) = amount
           /\ total(after.trace[n]) = amount

\* C17: apply_charge with a record of total amount, and charge_gas(name,
\* amount), called on the same tracker state, return the same result and
\* leave the same gas_used, and the trace of a tracing tracker has grown by
\* one record of total amount (no trace exists without tracing): every
\* apply_charge made is compared with charge_gas of its total, and every
\* charge_gas made with apply_charge of each record of that total.
C17_ApplyChargeAsChargeGas ==
    last.op \in ChargeOps
    => IF last.op = "apply_charge"
       THEN SameCharge(charge_gas(BeforeLast, last.name, last.arg),
                       BeforeLast, trackers[last.self], last.ret, last.arg)
       ELSE \A charge \in RecordsOf(last.name, last.arg) :
                SameCharge(apply_charge(BeforeLast, charge),
                           BeforeLast, trackers[last.self], last.ret, last.arg)

\* an apply_charge on a tracing tracker succeeded and its record is the last
\* of the trace
C17_Witness ==
    /\ last.op = "apply_charge"
    /\ last.ret = "Ok"
    /\ trackers[last.self].tracing
    /\ trackers[last.self].trace # <<>>
    /\ total(trackers[last.self].trace[Len(trackers[last.self].trace)]) = last.arg
    /\ gas_used(trackers[last.self]) = add(last.before, last.arg)

(***************************************************************************)
(* The syscall bridge (fvm/src/syscalls/crypto.rs).  A syscall is one      *)
(* action: its handler run from the first statement to the return.  What   *)
(* the handler did is kept as a log of events in the order of its          *)
(* statements: the bounds check of an argument region ("check"), the       *)
(* decoding of an argument ("decode"), the call of the kernel ("host"),    *)
(* a push onto the return channel ("push"), a write into an output         *)
(* buffer ("write").                                                       *)
(* The handlers use Context (syscalls/context.rs) and the Kernel, which    *)
(* are outside the sources at hand: a bounds check succeeds when the       *)
(* region lies inside the guest's memory; whether the memory is exported,  *)
(* whether the bytes decode, and what the kernel answers, are the choice   *)
(* of the guest and of the host.                                           *)
(***************************************************************************)
\* bytes of the guest's linear memory
MemSize == 34

\* const HASH_LEN in hash_blake2b
HASH_LEN == 32

\* the (offset, length) pairs a guest passes
Offsets == {0, 4}
Lengths == {2, HASH_LEN}
Regions == [off : Offsets, len : Lengths]

\* what the kernel answers: Ok(true), Ok(false), Err; Ok(hash), Err; Ok(cid),
\* Err; Ok(Some(fault)), Ok(None), Err; and return_push: Ok, Err
BoolAnswers == {"true", "false", "Err"}
HashAnswers == {"hash", "Err"}
CidAnswers == {"cid", "Err"}
FaultAnswers == {"fault", "none", "Err"}
PushAnswers == {"Ok", "Err"}

Event(ev, arg, ok) == [ev |-> ev, arg |-> arg, ok |-> ok]

\* the region [off, off + len) lies inside the guest's memory
in_bounds(off, len) == off + len <= MemSize

\* Context::try_slice: ok = FALSE is Err(Trap)
try_slice(log, arg, off, len) ==
    [ok |-> in_bounds(off, len),
     log |-> Append(log, Event("check", arg, in_bounds(off, len)))]

\* Context::try_slice_mut
try_slice_mut(log, arg, off, len) == try_slice(log, arg, off, len)

\* Context::try_slice_and_runtime, with its arguments in the order the
\* handlers pass them
try_slice_and_runtime(log, arg, len, off) == try_slice(log, arg, off, len)

\* Context::read_cbor: the region is checked, then its bytes are decoded
read_cbor(log, arg, off, len, well_formed) ==
    LET s == try_slice(log, arg, off, len) IN
    IF s.ok
    THEN [ok |-> well_formed,
          log |-> Append(s.log, Event("decode", arg, well_formed))]
    ELSE s

\* Context::read_address
read_address(log, arg, off, len, well_formed) ==
    read_cbor(log, arg, off, len, well_formed)

\* a call of the kernel operation op, which answers `answer`
kernel_call(log, op, answer) == Append(log, Event("host", op, answer # "Err"))

\* Kernel::return_push: the payload is on the return channel when it succeeds
return_push(log, payload, answer) ==
    [ok |-> answer = "Ok",
     log |-> Append(log, Event("push", payload, answer = "Ok")),
     pushed |-> IF answer = "Ok" THEN <<payload>> ELSE <<>>]

\* what a handler returns (ret: the value of Ok(..), or "Trap" for Err(Trap)),
\* with the log of what it did and the payloads it pushed
Return(ret, log, pushed) == [ret |-> ret, log |-> log, pushed |-> pushed]

Trap(log) == Return("Trap", log, <<>>)

verify_signature(memory, sig, addr, plaintext, sig_ok, addr_ok, answer) ==
    IF ~memory THEN Trap(<<>>) ELSE
    LET s == read_cbor(<<>>, "sig", sig.off, sig.len, sig_ok) IN
    IF ~s.ok THEN Trap(s.log) ELSE
    LET a == read_address(s.log, "addr", addr.off, addr.len, addr_ok) IN
    IF ~a.ok THEN Trap(a.log) ELSE
    LET p == try_slice_and_runtime(a.log, "plaintext", plaintext.len, plaintext.off) IN
    IF ~p.ok THEN Trap(p.log) ELSE
    LET k == kernel_call(p.log, "verify_signature", answer) IN
    IF answer = "Err" THEN Trap(k) ELSE Return(answer, k, <<>>)

\* the kernel's hash has 32 bytes (the handler asserts it)
hash_blake2b(memory, data, obuf_off, answer) ==
    IF ~memory THEN Trap(<<>>) ELSE
    LET d == try_slice_and_runtime(<<>>, "data", data.len, data.off) IN
    IF ~d.ok THEN Trap(d.log) ELSE
    LET k == kernel_call(d.log, "hash_blake2b", answer) IN
    IF answer = "Err" THEN Trap(k) ELSE
    LET o == try_slice_mut(k, "obuf", obuf_off, HASH_LEN) IN
    IF ~o.ok THEN Trap(o.log) ELSE
    Return("Ok", Append(o.log, Event("write", "obuf", TRUE)), <<>>)

compute_unsealed_sector_cid(memory, pieces, pieces_ok, answer) ==
    IF ~memory THEN Trap(<<>>) ELSE
    LET p == read_cbor(<<>>, "pieces", pieces.off, pieces.len, pieces_ok) IN
    IF ~p.ok THEN Trap(p.log) ELSE
    LET k == kernel_call(p.log, "compute_unsealed_sector_cid", answer) IN
    IF answer = "Err" THEN Trap(k) ELSE Return(answer, k, <<>>)

verify_seal(memory, info, info_ok, answer) ==
    IF ~memory THEN Trap(<<>>) ELSE
    LET i == read_cbor(<<>>, "info", info.off, info.len, info_ok) IN
    IF ~i.ok THEN Trap(i.log) ELSE
    LET k == kernel_call(i.log, "verify_seal", answer) IN
    IF answer = "Err" THEN Trap(k) ELSE Return(answer, k, <<>>)

verify_post(memory, info, info_ok, answer) ==
    IF ~memory THEN Trap(<<>>) ELSE
    LET i == read_cbor(<<>>, "info", info.off, info.len, info_ok) IN
    IF ~i.ok THEN Trap(i.log) ELSE
    LET k == kernel_call(i.log, "verify_post", answer) IN
    IF answer = "Err" THEN Trap(k) ELSE Return(answer, k, <<>>)

\* verify_consensus_fault reporting a failed evaluation as "no fault"
verify_consensus_fault_conflate(memory, h1, h2, extra, answer, push) ==
    IF ~memory THEN Trap(<<>>) ELSE
    LET a == try_slice(<<>>, "h1", h1.off, h1.len) IN
    IF ~a.ok THEN Trap(a.log) ELSE
    LET b == try_slice(a.log, "h2", h2.off, h2.len) IN
    IF ~b.ok THEN Trap(b.log) ELSE
    LET c == try_slice(b.log, "extra", extra.off, extra.len) IN
    IF ~c.ok THEN Trap(c.log) ELSE
    LET k == kernel_call(c.log, "verify_consensus_fault", answer) IN
    IF answer = "fault"
    THEN LET r == return_push(k, "fault", push) IN
         IF r.ok THEN Return("true", r.log, r.pushed) ELSE Trap(r.log)
    ELSE Return("false", k, <<>>)

verify_consensus_fault(memory, h1, h2, extra, answer, push) ==
    IF ~memory THEN Trap(<<>>) ELSE
    LET a == try_slice(<<>>, "h1", h1.off, h1.len) IN
    IF ~a.ok THEN Trap(a.log) ELSE
    LET b == try_slice(a.log, "h2", h2.off, h2.len) IN
    IF ~b.ok THEN Trap(b.log) ELSE
    LET c == try_slice(b.log, "extra", extra.off, extra.len) IN
    IF ~c.ok THEN Trap(c.log) ELSE
    LET k == kernel_call(c.log, "verify_consensus_fault", answer) IN
    IF answer = "Err" THEN Trap(k)
    ELSE IF answer = "fault"
    THEN LET r == return_push(k, "fault", push) IN
         IF r.ok THEN Return("true", r.log, r.pushed) ELSE Trap(r.log)
    ELSE Return("false", k, <<>>)

verify_aggregate_seals(memory, agg, agg_ok, answer) ==
    IF ~memory THEN Trap(<<>>) ELSE
    LET i == read_cbor(<<>>, "agg", agg.off, agg.len, agg_ok) IN
    IF ~i.ok THEN Trap(i.log) ELSE
    LET k == kernel_call(i.log, "verify_aggregate_seals", answer) IN
    IF answer = "Err" THEN Trap(k) ELSE Return(answer, k, <<>>)

\* a syscall the guest made: its name, whether the guest exports its memory,
\* the argument regions, what the kernel would answer (to the operation and
\* to a push), and what the handler returned and did
Syscall(name, memory, regions, answer, push, r) ==
    [name |-> name, memory |-> memory, regions |-> regions, answer |-> answer,
     push |-> push, ret |-> r.ret, log |-> r.log, pushed |-> r.pushed]

SyscallsInit ==
    /\ sys = Syscall("none", TRUE, <<>>, "Err", "Ok", Return("Ok", <<>>, <<>>))
    /\ TrackersIdle
    /\ calc = Idle /\ nest = Idle /\ twin = Idle

VerifySignature ==
    \E memory \in BOOLEAN, sig \in Regions, addr \in Regions, plaintext \in Regions,
       sig_ok \in BOOLEAN, addr_ok \in BOOLEAN, answer \in BoolAnswers :
        /\ sys' = Syscall("verify_signature", memory, <<sig, addr, plaintext>>,
                          answer, "Ok",
                          verify_signature(memory, sig, addr, plaintext,
                                           sig_ok, addr_ok, answer))
        /\ UNCHANGED <<tracker_vars, calc, nest, twin>>

HashBlake2b ==
    \E memory \in BOOLEAN, data \in Regions, obuf_off \in Offsets,
       answer \in HashAnswers :
        /\ sys' = Syscall("hash_blake2b", memory,
                          <<data, [off |-> obuf_off, len |-> HASH_LEN]>>,
                          answer, "Ok",
                          hash_blake2b(memory, data, obuf_off, answer))
        /\ UNCHANGED <<tracker_vars, calc, nest, twin>>

ComputeUnsealedSectorCid ==
    \E memory \in BOOLEAN, pieces \in Regions, pieces_ok \in BOOLEAN,
       answer \in CidAnswers :
        /\ sys' = Syscall("compute_unsealed_sector_cid", memory, <<pieces>>,
                          answer, "Ok",
                          compute_unsealed_sector_cid(memory, pieces, pieces_ok,
                                                      answer))
        /\ UNCHANGED <<tracker_vars, calc, nest, twin>>

VerifySeal ==
    \E memory \in BOOLEAN, info \in Regions, info_ok \in BOOLEAN,
       answer \in BoolAnswers :
        /\ sys' = Syscall("verify_seal", memory, <<info>>, answer, "Ok",
                          verify_seal(memory, info, info_ok, answer))
        /\ UNCHANGED <<tracker_vars, calc, nest, twin>>

VerifyPost ==
    \E memory \in BOOLEAN, info \in Regions, info_ok \in BOOLEAN,
       answer \in BoolAnswers :
        /\ sys' = Syscall("verify_post", memory, <<info>>, answer, "Ok",
                          verify_post(memory, info, info_ok, answer))
        /\ UNCHANGED <<tracker_vars, calc, nest, twin>>

VerifyConsensusFault ==
    \E memory \in BOOLEAN, h1 \in Regions, h2 \in Regions, extra \in Regions,
       answer \in FaultAnswers, push \in PushAnswers :
        /\ sys' = Syscall("verify_consensus_fault", memory, <<h1, h2, extra>>,
                          answer, push,
                          verify_consensus_fault(memory, h1, h2, extra, answer,
                                                 push))
        /\ UNCHANGED <<tracker_vars, calc, nest, twin>>

VerifyAggregateSeals ==
    \E memory \in BOOLEAN, agg \in Regions, agg_ok \in BOOLEAN,
       answer \in BoolAnswers :
        /\ sys' = Syscall("verify_aggregate_seals", memory, <<agg>>, answer, "Ok",
                          verify_aggregate_seals(memory, agg, agg_ok, answer))
        /\ UNCHANGED <<tracker_vars, calc, nest, twin>>

SyscallsNext ==
    \/ VerifySignature
    \/ HashBlake2b
    \/ ComputeUnsealedSectorCid
    \/ VerifySeal
    \/ VerifyPost
    \/ VerifyConsensusFault
    \/ VerifyAggregateSeals

SpecSyscalls == SyscallsInit /\ [][SyscallsNext]_vars

\* the handler checked every region of its arguments and found it in bounds
RegionsInBounds ==
    \A n \in DOMAIN sys.regions :
        in_bounds(sys.regions[n].off, sys.regions[n].len)

\* C12: in every syscall the bounds checks of all argument regions (output
\* buffers too) come before any decoding and before the kernel is called;
\* when a region is out of bounds the call returns a trap and neither a
\* decoding nor a call of the kernel has happened.
C12_RegionsValidatedFirst ==
    sys.name # "none"
    => /\ \A m \in DOMAIN sys.log, n \in DOMAIN sys.log :
              (sys.log[m].ev = "check" /\ sys.log[n].ev \in {"decode", "host"})
                  => m < n
       /\ ~RegionsInBounds
              => /\ sys.ret = "Trap"
                 /\ \A n \in DOMAIN sys.log : sys.log[n].ev \notin {"decode", "host"}

\* the checks verify_consensus_fault makes before it calls the kernel passed
FaultChecksPass == sys.memory /\ RegionsInBounds

WIDE_I64_MAX == 2047

WIDE_I64_MIN == (-WIDE_I64_MAX) - 1

\* u64::MAX on the same width
WIDE_U64_MAX == 2 * WIDE_I64_MAX + 1

MILLIGAS_PRECISION == 1000

\* an i64 result, saturated
wide(x) ==
    IF x > WIDE_I64_MAX THEN WIDE_I64_MAX
    ELSE IF x < WIDE_I64_MIN THEN WIDE_I64_MIN
    ELSE x

\* i64::saturating_add, saturating_sub, saturating_mul
wide_saturating_add(a, b) == wide(a + b)

wide_saturating_sub(a, b) == wide(a - b)

wide_saturating_mul(a, b) == wide(a * b)

\* i64 `/` and `%` by a positive divisor: the quotient is truncated toward
\* zero and the remainder has the sign of the dividend
i64_div(a, b) == IF a >= 0 THEN a \div b ELSE -((-a) \div b)

i64_rem(a, b) == a - b * i64_div(a, b)

\* u64 -> i64: rhs.try_into().unwrap_or(i64::MAX)
try_into_unwrap_or_max(rhs) == IF rhs <= WIDE_I64_MAX THEN rhs ELSE WIDE_I64_MAX

from_milligas(milligas) == milligas

Gas_new(gas) == wide_saturating_mul(gas, MILLIGAS_PRECISION)

is_saturated(self) == self = WIDE_I64_MAX

as_milligas(self) == self

\* milligas_to_gas rounding up whenever the value is positive
milligas_to_gas_no_rem(milligas, round) ==
    LET div_result == i64_div(milligas, MILLIGAS_PRECISION) IN
    IF milligas > 0 /\ round
    THEN wide_saturating_add(div_result, 1)
    ELSE IF milligas < 0 /\ ~round /\ i64_rem(milligas, MILLIGAS_PRECISION) # 0
    THEN wide_saturating_sub(div_result, 1)
    ELSE div_result

\* milligas_to_gas returning the quotient of `/` when it rounds down
milligas_to_gas_truncating(milligas, round) ==
    LET div_result == i64_div(milligas, MILLIGAS_PRECISION) IN
    IF milligas > 0 /\ round /\ i64_rem(milligas, MILLIGAS_PRECISION) # 0
    THEN wide_saturating_add(div_result, 1)
    ELSE div_result

\* round: the parameter round_up
milligas_to_gas(milligas, round) ==
    LET div_result == i64_div(milligas, MILLIGAS_PRECISION) IN
    IF milligas > 0 /\ round /\ i64_rem(milligas, MILLIGAS_PRECISION) # 0
    THEN wide_saturating_add(div_result, 1)
    ELSE IF milligas < 0 /\ ~round /\ i64_rem(milligas, MILLIGAS_PRECISION) # 0
    THEN wide_saturating_sub(div_result, 1)
    ELSE div_result

round_up(self) == milligas_to_gas(self, TRUE)

round_down(self) == milligas_to_gas(self, FALSE)

\* impl Add, Sub, Mul<i64> (and Mul<i32>, Mul<u32>, whose scalars convert
\* to i64 unchanged), Mul<u64> (and Mul<usize>) for Gas
wide_add(self, rhs) == wide_saturating_add(self, rhs)

wide_sub(self, rhs) == wide_saturating_sub(self, rhs)

mul_i64(self, rhs) == wide_saturating_mul(self, rhs)

mul_u64(self, rhs) == wide_saturating_mul(self, try_into_unwrap_or_max(rhs))

\* the second operands: i64 values, and u64 values above i64::MAX
Scalars == {WIDE_I64_MIN, -1, 0, 1, 2, WIDE_I64_MAX}
Unsigned == {0, 1, 2, WIDE_I64_MAX, WIDE_I64_MAX + 1, WIDE_U64_MAX}

\* an operation of the value type: its operands and its result
Calc(op, self, rhs, ret) == [op |-> op, self |-> self, rhs |-> rhs, ret |-> ret]

\* a Gas value (or a count of whole units) and a second operand
GasInit ==
    /\ \E self \in WIDE_I64_MIN..WIDE_I64_MAX, rhs \in Scalars \cup Unsigned :
           calc = Calc("input", self, rhs, 0)
    /\ TrackersIdle
    /\ sys = Idle /\ nest = Idle /\ twin = Idle

GasNew ==
    /\ calc' = Calc("new", calc.self, calc.rhs, Gas_new(calc.self))
    /\ UNCHANGED <<tracker_vars, sys, nest, twin>>

RoundUp ==
    /\ calc' = Calc("round_up", calc.self, calc.rhs, round_up(from_milligas(calc.self)))
    /\ UNCHANGED <<tracker_vars, sys, nest, twin>>

RoundDown ==
    /\ calc' = Calc("round_down", calc.self, calc.rhs,
                    round_down(from_milligas(calc.self)))
    /\ UNCHANGED <<tracker_vars, sys, nest, twin>>

GasAdd ==
    /\ calc.rhs \in Scalars
    /\ calc' = Calc("add", calc.self, calc.rhs, wide_add(calc.self, calc.rhs))
    /\ UNCHANGED <<tracker_vars, sys, nest, twin>>

\* impl AddAssign: self += rhs
GasAddAssign ==
    /\ calc.rhs \in Scalars
    /\ calc' = Calc("add_assign", wide_add(calc.self, calc.rhs), calc.rhs, 0)
    /\ UNCHANGED <<tracker_vars, sys, nest, twin>>

GasSub ==
    /\ calc.rhs \in Scalars
    /\ calc' = Calc("sub", calc.self, calc.rhs, wide_sub(calc.self, calc.rhs))
    /\ UNCHANGED <<tracker_vars, sys, nest, twin>>

GasMulI64 ==
    /\ calc.rhs \in Scalars
    /\ calc' = Calc("mul_i64", calc.self, calc.rhs, mul_i64(calc.self, calc.rhs))
    /\ UNCHANGED <<tracker_vars, sys, nest, twin>>

GasMulU64 ==
    /\ calc.rhs \in Unsigned
    /\ calc' = Calc("mul_u64", calc.self, calc.rhs, mul_u64(calc.self, calc.rhs))
    /\ UNCHANGED <<tracker_vars, sys, nest, twin>>

GasNext ==
    \/ GasNew
    \/ RoundUp
    \/ RoundDown
    \/ GasAdd
    \/ GasAddAssign
    \/ GasSub
    \/ GasMulI64
    \/ GasMulU64

SpecGas == GasInit /\ [][GasNext]_vars

\* C14: for every milligas value v, round_down(v) <= round_up(v) <=
\* round_down(v) + 1, and the two are equal exactly when v is a multiple of
\* MILLIGAS_PRECISION.
C14_RoundingBracket ==
    calc.op \in {"round_up", "round_down"}
    => LET v == calc.self
           down == IF calc.op = "round_down" THEN calc.ret
                   ELSE round_down(from_milligas(v))
           up == IF calc.op = "round_up" THEN calc.ret
                 ELSE round_up(from_milligas(v))
       IN /\ down <= up
          /\ up <= down + 1
          /\ down = up <=> v % MILLIGAS_PRECISION = 0

\* a negative value with a fractional part was rounded down, one below its
\* rounding up
C14_Witness ==
    /\ calc.op = "round_down"
    /\ calc.self < -MILLIGAS_PRECISION
    /\ calc.self % MILLIGAS_PRECISION # 0
    /\ calc.ret + 1 = round_up(from_milligas(calc.self))

ExactOrSaturated(x, ret) ==
    IF x > WIDE_I64_MAX THEN ret = WIDE_I64_MAX
    ELSE IF x < WIDE_I64_MIN THEN ret = WIDE_I64_MIN
    ELSE ret = x

\* C16: Gas::new, +, - and the multiplication by a scalar (signed or
\* unsigned) return the exact result when it is representable and otherwise
\* the maximum or the minimum; Gas::new(i64::MAX) is saturated; adding a
\* positive value never yields more than the maximum nor less than before.
C16_ExactOrSaturated ==
    [][ /\ calc'.op = "new"
            => ExactOrSaturated(calc'.self * MILLIGAS_PRECISION, calc'.ret)
        /\ (calc'.op = "new" /\ calc'.self = WIDE_I64_MAX)
            => is_saturated(calc'.ret)
        /\ calc'.op = "add"
            => ExactOrSaturated(calc'.self + calc'.rhs, calc'.ret)
        /\ calc'.op = "sub"
            => ExactOrSaturated(calc'.self - calc'.rhs, calc'.ret)
        /\ calc'.op \in {"mul_i64", "mul_u64"}
            => ExactOrSaturated(calc'.self * calc'.rhs, calc'.ret)
        /\ (calc'.op = "add_assign" /\ calc.rhs > 0)
            => (calc.self <= calc'.self /\ calc'.self <= WIDE_I64_MAX)
      ]_vars

(***************************************************************************)
(* Nested calls: a stack of call frames, each with its GasTracker.  The    *)
(* tracker of a frame is the child (new_child) of the tracker of the frame *)
(* below it; the top frame can spawn, any frame can be charged, and when   *)
(* the top frame returns its tracker is absorbed into its parent's.        *)
(* Beside the trackers the model keeps                                     *)
(*   attempts  the number of charge records made (charges on tracing       *)
(*             trackers), at most MaxTrace; a record's name is <<its       *)
(*             number, its frame>>                                         *)
(*   disorder  TRUE once a tracker was charged while a tracker nested      *)
(*             below it held records not yet absorbed                      *)
(*   of a child frame:                                                     *)
(*   quiet     the parent was not charged since the spawn (in a stack the  *)
(*             parent absorbs no other tracker meanwhile, and the child    *)
(*             is absorbed once)                                           *)
(*   nonneg    only amounts >= 0 were charged to the child                 *)
(***************************************************************************)
\* the frames of the stack: a call, the call nested in it and the call
\* nested in that
NestFrames == <<"root", "child", "grandchild">>

\* amounts charged and limits asked of new_child in nested calls
NestAmounts == {-1, 1}
NestLimits == {I64_MIN, -1, 0, 1}

Frame(tracker, quiet, nonneg) ==
    [tracker |-> tracker, quiet |-> quiet, nonneg |-> nonneg]

\* a call and what it returned; for an absorb, child is the frame absorbed
\* as it was before the call
NestCall(op, ret, child) == [op |-> op, ret |-> ret, child |-> child]

NoFrame == Frame(GasTracker_new(zero, zero, FALSE), FALSE, FALSE)

NestInit ==
    /\ \E l \in InitLimit, u \in InitUsed, tr \in BOOLEAN :
           nest = [frames |-> <<Frame(GasTracker_new(l, u, tr), FALSE, TRUE)>>,
                   attempts |-> 0,
                   disorder |-> FALSE,
                   call |-> NestCall("new", "Ok", NoFrame)]
    /\ TrackersIdle
    /\ sys = Idle /\ calc = Idle /\ twin = Idle

\* frames[k].tracker.charge_gas(<<attempts + 1, k>>, to_use)
NestCharge(k, to_use) ==
    LET f == nest.frames
        t == f[k].tracker
        r == charge_gas(t, <<nest.attempts + 1, k>>, to_use)
    IN
    /\ t.tracing => nest.attempts < MaxTrace
    /\ nest' = [frames |->
                    [j \in DOMAIN f |->
                        IF j = k
                        THEN Frame(r.tracker, f[j].quiet, f[j].nonneg /\ to_use >= 0)
                        ELSE IF j = k + 1
                        THEN [f[j] EXCEPT !.quiet = FALSE]
                        ELSE f[j]],
                attempts |-> IF t.tracing THEN nest.attempts + 1 ELSE nest.attempts,
                disorder |-> nest.disorder
                                \/ (t.tracing /\ \E j \in DOMAIN f :
                                        j > k /\ f[j].tracker.trace # <<>>),
                call |-> NestCall("charge_gas", r.res, NoFrame)]
    /\ UNCHANGED <<tracker_vars, sys, calc, twin>>

\* the top frame's tracker.new_child(new_limit); a child returned is the
\* tracker of a new frame
NestSpawn(new_limit) ==
    LET f == nest.frames
        k == Len(f)
        r == new_child(f[k].tracker, new_limit)
    IN
    /\ r.some => k < Len(NestFrames)
    /\ nest' = [nest EXCEPT
                    !.frames = IF r.some
                               THEN Append(f, Frame(r.child, TRUE, TRUE))
                               ELSE f,
                    !.call = NestCall("new_child",
                                      IF r.some THEN "Some" ELSE "None", NoFrame)]
    /\ UNCHANGED <<tracker_vars, sys, calc, twin>>

\* the top frame returns: its parent absorbs its tracker, which is dropped
NestAbsorb ==
    LET f == nest.frames
        k == Len(f) - 1
        r == absorb(f[k].tracker, f[k + 1].tracker)
    IN
    /\ k >= 1
    /\ nest' = [nest EXCEPT
                    !.frames =
                        [j \in 1..k |->
                            IF j = k
                            THEN Frame(r.self, f[j].quiet,
                                       f[j].nonneg /\ gas_used(f[k + 1].tracker) >= 0)
                            ELSE f[j]],
                    !.call = NestCall("absorb", r.res, f[k + 1])]
    /\ UNCHANGED <<tracker_vars, sys, calc, twin>>

NestNext ==
    \/ \E k \in DOMAIN nest.frames, to_use \in NestAmounts : NestCharge(k, to_use)
    \/ \E new_limit \in NestLimits : NestSpawn(new_limit)
    \/ NestAbsorb

SpecNested == NestInit /\ [][NestNext]_vars

\* the numbers of the records of a trace, in the order of the trace
Numbers(trace) == [i \in DOMAIN trace |-> trace[i].name[1]]

\* the records held by the frames 1..k, those of the root first
RECURSIVE Held(_)
Held(k) == IF k = 0 THEN <<>> ELSE Held(k - 1) \o nest.frames[k].tracker.trace

\* C18 as claimed: when every child has returned (and was absorbed on its
\* return), the trace of the root lists its records in the order the charges
\* were attempted, also after runs in which a parent was charged between
\* spawning a child and absorbing it.
C18_RootTraceInCallOrder ==
    Len(nest.frames) = 1
    => \A i \in DOMAIN nest.frames[1].tracker.trace :
       \A j \in DOMAIN nest.frames[1].tracker.trace :
           i < j => Numbers(nest.frames[1].tracker.trace)[i]
                        < Numbers(nest.frames[1].tracker.trace)[j]

\* C18 (amended): as long as no tracker was charged while a tracker nested
\* below it held records not yet absorbed, the records of the stack, read
\* from the root's trace up to the top frame's, are all the charges
\* attempted, in the order they were attempted; so once every child has
\* returned the root's trace lists every record in call order.
C18_TraceInCallOrderWhenNested ==
    (nest.frames[1].tracker.tracing /\ ~nest.disorder)
    => Numbers(Held(Len(nest.frames))) = [i \in 1..nest.attempts |-> i]

\* a child has returned to a parent that was charged between the spawn and
\* the absorb; the root's trace holds the parent's record and then the child's
C18_Witness ==
    /\ Len(nest.frames) = 1
    /\ ~nest.disorder
    /\ nest.call.op = "absorb"
    /\ ~nest.call.child.quiet
    /\ Len(nest.frames[1].tracker.trace) = 2
    /\ nest.frames[1].tracker.trace[1].name = <<1, 1>>
    /\ nest.frames[1].tracker.trace[2].name = <<2, 2>>

\* C19 as claimed: absorbing a child obtained from new_child, to which only
\* amounts >= 0 were charged and whose parent was not charged since the
\* spawn, returns Ok and leaves the parent's gas_used < gas_limit; an absorb
\* returns OutOfGas only if the parent was charged since the spawn.
C19_AbsorbOfChild ==
    nest.call.op = "absorb"
    => LET parent == nest.frames[Len(nest.frames)].tracker IN
       /\ (nest.call.child.quiet /\ nest.call.child.nonneg)
              => /\ nest.call.ret = "Ok"
                 /\ gas_used(parent) < gas_limit(parent)
       /\ nest.call.ret = "OutOfGas" => ~nest.call.child.quiet

\* C19 (amended): the same for a child obtained from new_child with a limit
\* >= 0.
C19_AbsorbOfChildWithLimit ==
    (nest.call.op = "absorb" /\ gas_limit(nest.call.child.tracker) >= 0)
    => LET parent == nest.frames[Len(nest.frames)].tracker IN
       /\ (nest.call.child.quiet /\ nest.call.child.nonneg)
              => /\ nest.call.ret = "Ok"
                 /\ gas_used(parent) < gas_limit(parent)
       /\ nest.call.ret = "OutOfGas" => ~nest.call.child.quiet

\* a child that used gas was absorbed by a parent not charged meanwhile
C19_Witness ==
    /\ nest.call.op = "absorb"
    /\ nest.call.child.quiet
    /\ nest.call.child.nonneg
    /\ gas_limit(nest.call.child.tracker) > 0
    /\ gas_used(nest.call.child.tracker) > 0
    /\ nest.call.ret = "Ok"
    /\ gas_used(nest.frames[Len(nest.frames)].tracker)
           < gas_limit(nest.frames[Len(nest.frames)].tracker)

(***************************************************************************)
(* Two runs of the GasTracker API side by side: a root tracker created     *)
(* with tracing and one created without, with the same limit and usage,    *)
(* and every call made on both (on the tracker at the same place of each   *)
(* run, with the same arguments).  twin.call holds the call and the pair   *)
(* of results it returned.                                                 *)
(***************************************************************************)
TwinCall(op, traced_ret, untraced_ret) == [op |-> op, ret |-> <<traced_ret, untraced_ret>>]

\* the trackers both runs have
TwinTrackers == DOMAIN twin.traced \cap DOMAIN twin.untraced

\* charge records held in the trace buffers of the traced run
RECURSIVE TwinTraceTotal(_)
TwinTraceTotal(i) ==
    IF i = 0 THEN 0 ELSE Len(twin.traced[i].trace) + TwinTraceTotal(i - 1)

\* one run after new_child: a child returned is the run's next tracker
WithChild(run, r) == IF r.some THEN Append(run, r.child) ELSE run

TwinInit ==
    /\ \E l \in InitLimit, u \in InitUsed :
           twin = [traced |-> <<GasTracker_new(l, u, TRUE)>>,
                   untraced |-> <<GasTracker_new(l, u, FALSE)>>,
                   call |-> TwinCall("new", "Ok", "Ok")]
    /\ TrackersIdle
    /\ sys = Idle /\ calc = Idle /\ nest = Idle

TwinChargeGas(i, name, to_use) ==
    LET a == charge_gas(twin.traced[i], name, to_use)
        b == charge_gas(twin.untraced[i], name, to_use)
    IN
    /\ TwinTraceTotal(Len(twin.traced)) < MaxTrace
    /\ twin' = [traced |-> [twin.traced EXCEPT ![i] = a.tracker],
                untraced |-> [twin.untraced EXCEPT ![i] = b.tracker],
                call |-> TwinCall("charge_gas", a.res, b.res)]
    /\ UNCHANGED <<tracker_vars, sys, calc, nest>>

TwinApplyCharge(i, charge) ==
    LET a == apply_charge(twin.traced[i], charge)
        b == apply_charge(twin.untraced[i], charge)
    IN
    /\ TwinTraceTotal(Len(twin.traced)) < MaxTrace
    /\ twin' = [traced |-> [twin.traced EXCEPT ![i] = a.tracker],
                untraced |-> [twin.untraced EXCEPT ![i] = b.tracker],
                call |-> TwinCall("apply_charge", a.res, b.res)]
    /\ UNCHANGED <<tracker_vars, sys, calc, nest>>

TwinAbsorb(i, j) ==
    LET a == absorb(twin.traced[i], twin.traced[j])
        b == absorb(twin.untraced[i], twin.untraced[j])
    IN
    /\ i # j
    /\ twin' = [traced |-> [twin.traced EXCEPT ![i] = a.self, ![j] = a.other],
                untraced |-> [twin.untraced EXCEPT ![i] = b.self, ![j] = b.other],
                call |-> TwinCall("absorb", a.res, b.res)]
    /\ UNCHANGED <<tracker_vars, sys, calc, nest>>

TwinNewChild(i, new_limit) ==
    LET a == new_child(twin.traced[i], new_limit)
        b == new_child(twin.untraced[i], new_limit)
    IN
    /\ (a.some \/ b.some)
           => (Len(twin.traced) < Len(Frames) /\ Len(twin.untraced) < Len(Frames))
    /\ twin' = [traced |-> WithChild(twin.traced, a),
                untraced |-> WithChild(twin.untraced, b),
                call |-> TwinCall("new_child",
                                  IF a.some THEN "Some" ELSE "None",
                                  IF b.some THEN "Some" ELSE "None")]
    /\ UNCHANGED <<tracker_vars, sys, calc, nest>>

TwinDrainTrace(i) ==
    LET a == drain_trace(twin.traced[i])
        b == drain_trace(twin.untraced[i])
    IN
    /\ twin' = [traced |-> [twin.traced EXCEPT ![i] = a.tracker],
                untraced |-> [twin.untraced EXCEPT ![i] = b.tracker],
                call |-> TwinCall("drain_trace", "Ok", "Ok")]
    /\ UNCHANGED <<tracker_vars, sys, calc, nest>>

TwinNext ==
    \/ \E i \in TwinTrackers, a \in ChargeGasArgs : TwinChargeGas(i, a[1], a[2])
    \/ \E i \in TwinTrackers, charge \in ApplyChargeArgs : TwinApplyCharge(i, charge)
    \/ \E i \in TwinTrackers, j \in TwinTrackers : TwinAbsorb(i, j)
    \/ \E i \in TwinTrackers, new_limit \in NewLimit : TwinNewChild(i, new_limit)
    \/ \E i \in TwinTrackers : TwinDrainTrace(i)

SpecTwin == TwinInit /\ [][TwinNext]_vars

====
